---- MODULE Spec2Model ----
(***************************************************************************)
(* VerseVault (src/VV_Single.py): a Streamlit script.  Every user          *)
(* interaction re-executes the whole script top to bottom (one "run");     *)
(* st.session_state and the storage backends survive between runs.         *)
(*                                                                         *)
(* Strings are sequences of one-character strings, so that split(),        *)
(* strip(), lower() and re.sub() are computed character by character.      *)
(***************************************************************************)
EXTENDS Integers, Sequences, FiniteSets, TLC

(***************************************************************************)
(* Bounds of the model                                                     *)
(***************************************************************************)
MaxVerses == 2      \* rows ever inserted into vv_verses, both backends together
MaxFuture == 2      \* rows ever inserted into vv_future_verses, both backends together
MaxClock == 1       \* last value of the wall clock (datetime('now'), in seconds)
MaxEpoch == 2       \* the Next buttons are pressed while quiz_epoch is below this
MaxEntropy == 1     \* the random module's generator starts a run from 0..MaxEntropy
MaxTokens == 41     \* longest verse of the blank-policy specification, in tokens
MaxPick == 2        \* entropy values tried per token count in the blank-policy specification

(***************************************************************************)
(* Python str methods used by the script                                   *)
(***************************************************************************)
Whitespace == {" ", "\n"}
Punctuation == {".", ",", ";", ":", "!", "?"}       \* the class [.,;:!?]
UpperCase == <<"A","B","C","D","E","F","G","H","I","J","K","L","M",
               "N","O","P","Q","R","S","T","U","V","W","X","Y","Z">>
LowerCase == <<"a","b","c","d","e","f","g","h","i","j","k","l","m",
               "n","o","p","q","r","s","t","u","v","w","x","y","z">>

\* str.lower() on one character
LowerChar(c) ==
    IF \E i \in DOMAIN UpperCase : UpperCase[i] = c
    THEN LowerCase[CHOOSE i \in DOMAIN UpperCase : UpperCase[i] = c]
    ELSE c

\* str.lower()
lower(s) == [i \in DOMAIN s |-> LowerChar(s[i])]

\* str.strip(): drop leading and trailing whitespace
strip(s) ==
    LET keep == {i \in DOMAIN s : s[i] \notin Whitespace}
    IN  IF keep = {} THEN <<>>
        ELSE LET lo == CHOOSE i \in keep : \A j \in keep : i <= j
                 hi == CHOOSE i \in keep : \A j \in keep : j <= i
             IN  SubSeq(s, lo, hi)

\* re.sub(r"[.,;:!?]", "", s)
re_sub_punct(s) == SelectSeq(s, LAMBDA c : c \notin Punctuation)

\* str.split() with no argument: maximal runs of non-whitespace characters
split(s) ==
    LET starts == {i \in DOMAIN s : s[i] \notin Whitespace
                                    /\ (i = 1 \/ s[i - 1] \in Whitespace)}
        ends == {i \in DOMAIN s : s[i] \notin Whitespace
                                  /\ (i = Len(s) \/ s[i + 1] \in Whitespace)}
        nth(S, k) == CHOOSE x \in S : Cardinality({y \in S : y < x}) = k - 1
    IN  [k \in 1..Cardinality(starts) |-> SubSeq(s, nth(starts, k), nth(ends, k))]

\* " ".join(words)
RECURSIVE join(_)
join(ws) ==
    IF ws = <<>> THEN <<>>
    ELSE IF Len(ws) = 1 THEN ws[1]
    ELSE ws[1] \o <<" ">> \o join(Tail(ws))

\* str(i) for the tag numbers (1..9 below; two digits from 10)
Digits == <<"0","1","2","3","4","5","6","7","8","9">>
RECURSIVE str(_)
str(i) == IF i < 10 THEN <<Digits[i + 1]>> ELSE str(i \div 10) \o <<Digits[(i % 10) + 1]>>

\* f"[{i}]"
Tag(i) == <<"[">> \o str(i) \o <<"]">>

\* int(tag.strip("[]")): the number a tag carries
RECURSIVE int(_)
int(ds) ==
    IF ds = <<>> THEN 0
    ELSE 10 * int(SubSeq(ds, 1, Len(ds) - 1))
         + ((CHOOSE d \in DOMAIN Digits : Digits[d] = ds[Len(ds)]) - 1)

TagNumber(tag) == int(SelectSeq(tag, LAMBDA c : c \notin {"[", "]"}))

(***************************************************************************)
(* The random module.  The generator's state at the start of a run is an   *)
(* arbitrary natural e; randbelow(m) returns e % m and leaves e \div m.    *)
(***************************************************************************)
SetOf(s) == {s[i] : i \in DOMAIN s}

RECURSIVE SortAsc(_)
\* sorted() of a set of integers
SortAsc(S) ==
    IF S = {} THEN <<>>
    ELSE LET m == CHOOSE x \in S : \A y \in S : x <= y
         IN  <<m>> \o SortAsc(S \ {m})

\* sorted() left out: the list in the order the sample drew it
sorted_AsDrawn(s) == s

\* sorted() of a list of integers
sorted(s) ==
    LET Count(x) == Cardinality({i \in DOMAIN s : s[i] = x})
        RECURSIVE Rep(_, _)
        Rep(x, k) == IF k = 0 THEN <<>> ELSE <<x>> \o Rep(x, k - 1)
        RECURSIVE Build(_)
        Build(vals) == IF vals = <<>> THEN <<>>
                       ELSE Rep(vals[1], Count(vals[1])) \o Build(Tail(vals))
    IN  Build(SortAsc(SetOf(s)))

Swap(x, i, j) == [x EXCEPT ![i] = x[j], ![j] = x[i]]

\* random.shuffle(x): for i in reversed(range(1, len(x))): j = randbelow(i + 1);
\* x[i], x[j] = x[j], x[i].  Returns the shuffled list and the generator's state.
RECURSIVE ShuffleFrom(_, _, _)
ShuffleFrom(x, i, e) ==
    IF i < 1 THEN [list |-> x, rng |-> e]
    ELSE ShuffleFrom(Swap(x, i + 1, (e % (i + 1)) + 1), i - 1, e \div (i + 1))

shuffle(x, e) == ShuffleFrom(x, Len(x) - 1, e)

\* random.sample(range(n), k): k draws without replacement from a pool;
\* result[i] = pool[j]; pool[j] = pool[n - i - 1].
RECURSIVE SampleFrom(_, _, _, _, _)
SampleFrom(pool, n, k, result, e) ==
    IF Len(result) = k THEN result
    ELSE LET i == Len(result)
             j == e % (n - i)
         IN  SampleFrom([pool EXCEPT ![j + 1] = pool[n - i]], n, k,
                        Append(result, pool[j + 1]), e \div (n - i))

sample(n, k, e) == SampleFrom([i \in 1..n |-> i - 1], n, k, <<>>, e)

(***************************************************************************)
(* Inputs the user types                                                   *)
(***************************************************************************)
RefJohn == <<"J","n">>
RefPsalm == <<"P","s">>
TextLong == <<"t","h","e"," ","L","o","r","d","."," ","i","s"," "," ","g","o","o","d">>
TextShort == <<"L","o","r","d">>
VerseRefs == {RefJohn, RefPsalm}
VerseTexts == {TextLong, TextShort}
\* what the text boxes of the forms can hold, the empty box included
FutureInputs == {RefJohn, <<" ">>, <<>>}
AnswerInputs == {<<" ","l","o","r","d","."," ">>}
MemInputs == {<<"L","o","r","d">>}

(***************************************************************************)
(* Storage: both classes keep two tables; ids are autoincrement, so an id  *)
(* is never reused within a backend.                                       *)
(***************************************************************************)
Backends == {"sqlite", "supabase"}

\* SQLiteStorage._init: "create table if not exists" twice
EmptyTables == [vv_verses |-> <<>>, verse_seq |-> 0,
                vv_future_verses |-> <<>>, future_seq |-> 0]

\* insert into vv_verses(ref, text, ...): id autoincrement, created_at datetime('now')
add_verse(t, ref, text, now) ==
    [t EXCEPT !.vv_verses = Append(@, [id |-> t.verse_seq + 1, ref |-> ref,
                                       text |-> text, created_at |-> now]),
              !.verse_seq = @ + 1]

\* update vv_verses set ref=?, text=? ... where id=?
update_verse(t, id_, ref, text) ==
    [t EXCEPT !.vv_verses =
        [i \in DOMAIN @ |-> IF @[i].id = id_
                            THEN [@[i] EXCEPT !.ref = ref, !.text = text]
                            ELSE @[i]]]

\* lines 138-140 and 93-94: the statement is executed (and committed); no row
\* count is read, nothing is raised and nothing is returned, whether or not
\* a row has the id
update_verse_outcome(t, id_) == "returned"

\* order by datetime(created_at) desc, id desc
Newer(a, b) == a.created_at > b.created_at \/ (a.created_at = b.created_at /\ a.id > b.id)

RECURSIVE OrderDesc(_)
OrderDesc(rows) ==
    IF rows = {} THEN <<>>
    ELSE LET top == CHOOSE r \in rows : \A q \in rows \ {r} : Newer(r, q)
         IN  <<top>> \o OrderDesc(rows \ {top})

\* select * from vv_verses order by datetime(created_at) desc, id desc
list_verses(t) == OrderDesc(SetOf(t.vv_verses))

\* insert into vv_future_verses(ref)
add_future(t, ref, now) ==
    [t EXCEPT !.vv_future_verses = Append(@, [id |-> t.future_seq + 1, ref |-> ref,
                                              created_at |-> now]),
              !.future_seq = @ + 1]

\* select * from vv_future_verses order by datetime(created_at) desc, id desc
\* (SQLiteStorage; the remote query of line 97 orders by created_at alone, and
\* the runs below read its result only as a set of ids)
list_future(t) == OrderDesc(SetOf(t.vv_future_verses))

\* SupabaseStorage.list_future, line 97: .order("created_at", desc=True) and no
\* second key; rows of equal created_at come in an order the server chooses.
\* The set of lists the call can return.
supabase_list_future(t) ==
    LET rows == SetOf(t.vv_future_verses)
        n == Cardinality(rows)
    IN  {p \in [1..n -> rows] :
            /\ \A i, j \in 1..n : i # j => p[i] # p[j]
            /\ \A i, j \in 1..n : i < j => p[i].created_at >= p[j].created_at}

\* the delete without its where clause
remove_future_All(t, id_) == [t EXCEPT !.vv_future_verses = <<>>]

\* delete from vv_future_verses where id=?
remove_future(t, id_) ==
    [t EXCEPT !.vv_future_verses = SelectSeq(@, LAMBDA r : r.id # id_)]

\* df["id"].tolist()
IdList(df) == [i \in DOMAIN df |-> df[i].id]

Inserted(d) == d["sqlite"].verse_seq + d["supabase"].verse_seq
InsertedFuture(d) == d["sqlite"].future_seq + d["supabase"].future_seq

(***************************************************************************)
(* st.session_state: dictionaries are functions on their key sets          *)
(***************************************************************************)
Get(d, k, default) == IF k \in DOMAIN d THEN d[k] ELSE default
Put(d, k, v) == [x \in (DOMAIN d) \cup {k} |-> IF x = k THEN v ELSE d[x]]
Pop(d, k) == [x \in (DOMAIN d) \ {k} |-> d[x]]
EmptyDict == [x \in {} |-> 0]

None == 0      \* no verse id: ids start at 1

Min(a, b) == IF a <= b THEN a ELSE b

\* list.index(x), 0-based
Index(s, x) == (CHOOSE i \in DOMAIN s : s[i] = x /\ \A j \in DOMAIN s : s[j] = x => i <= j) - 1

\* A new browser session: no key set.  The flags mem_show_<id> and fib_show_<id>
\* are read only as session_state.get(key, False): mem_show and fib_show are the
\* sets of ids whose flag is True.
NewSession ==
    [keys |-> {}, entered |-> FALSE, quiz_epoch |-> 0,
     mem_ids |-> <<>>, mem_pos |-> 0, fib_ids |-> <<>>, fib_pos |-> 0,
     fb_blanks_per_id |-> EmptyDict,
     mem_show |-> {}, mem_text |-> EmptyDict,
     fib_show |-> {}, fib_results |-> EmptyDict]

(***************************************************************************)
(* Quiz tab, lines 217-250: the traversal sync                             *)
(***************************************************************************)
\* SyncMem with line 226 never finding a difference
SyncMem_NoRebuild(ss, ids_desc) ==
    IF "mem_ids" \notin ss.keys
    THEN [ss |-> [ss EXCEPT !.keys = @ \cup {"mem_ids", "mem_pos"},
                            !.mem_ids = ids_desc, !.mem_pos = 0],
          rebuilt |-> FALSE, current_id |-> None]
    ELSE [ss |-> ss, rebuilt |-> FALSE, current_id |-> None]

\* SyncMem with lines 234-235 left out: the rebuild always ends at line 237
SyncMem_ResetCursor(ss, ids_desc) ==
    IF "mem_ids" \notin ss.keys
    THEN [ss |-> [ss EXCEPT !.keys = @ \cup {"mem_ids", "mem_pos"},
                            !.mem_ids = ids_desc, !.mem_pos = 0],
          rebuilt |-> FALSE, current_id |-> None]
    ELSE IF SetOf(ss.mem_ids) # SetOf(ids_desc)
         THEN [ss |-> [ss EXCEPT !.mem_ids = ids_desc, !.mem_pos = 0],
               rebuilt |-> TRUE,
               current_id |-> IF ss.mem_ids # <<>>
                              THEN ss.mem_ids[Min(ss.mem_pos, Len(ss.mem_ids) - 1) + 1]
                              ELSE None]
         ELSE [ss |-> ss, rebuilt |-> FALSE, current_id |-> None]

\* SyncMem with line 232 keeping the old order and appending the new ids
SyncMem_AppendNew(ss, ids_desc) ==
    IF "mem_ids" \notin ss.keys
    THEN [ss |-> [ss EXCEPT !.keys = @ \cup {"mem_ids", "mem_pos"},
                            !.mem_ids = ids_desc, !.mem_pos = 0],
          rebuilt |-> FALSE, current_id |-> None]
    ELSE IF SetOf(ss.mem_ids) # SetOf(ids_desc)
         THEN LET kept == SelectSeq(ss.mem_ids, LAMBDA x : x \in SetOf(ids_desc))
                  new == SelectSeq(ids_desc, LAMBDA x : x \notin SetOf(ss.mem_ids))
              IN  [ss |-> [ss EXCEPT !.mem_ids = kept \o new,
                                     !.mem_pos = Min(ss.mem_pos, Len(kept \o new) - 1)],
                   rebuilt |-> TRUE, current_id |-> None]
         ELSE [ss |-> ss, rebuilt |-> FALSE, current_id |-> None]

\* lines 221-237.  rebuilt says whether line 226 found the id sets different;
\* current_id is the local of line 227/231.
SyncMem(ss, ids_desc) ==
    IF "mem_ids" \notin ss.keys
    THEN [ss |-> [ss EXCEPT !.keys = @ \cup {"mem_ids", "mem_pos"},
                            !.mem_ids = ids_desc, !.mem_pos = 0],
          rebuilt |-> FALSE, current_id |-> None]
    ELSE IF SetOf(ss.mem_ids) # SetOf(ids_desc)
         THEN LET clamped == IF ss.mem_ids # <<>>
                             THEN Min(ss.mem_pos, Len(ss.mem_ids) - 1)
                             ELSE ss.mem_pos
                  current_id == IF ss.mem_ids # <<>>
                                THEN ss.mem_ids[clamped + 1]
                                ELSE None
              IN  [ss |-> [ss EXCEPT !.mem_ids = ids_desc,
                                     !.mem_pos = IF current_id \in SetOf(ids_desc)
                                                 THEN Index(ids_desc, current_id)
                                                 ELSE 0],
                   rebuilt |-> TRUE, current_id |-> current_id]
         ELSE [ss |-> ss, rebuilt |-> FALSE, current_id |-> None]

\* SyncFib with line 250 left out
SyncFib_KeepCursor(ss, ids_desc, e) ==
    IF "fib_ids" \notin ss.keys
    THEN LET fib == shuffle(ids_desc, e)
         IN  [ss |-> [ss EXCEPT !.keys = @ \cup {"fib_ids", "fib_pos"},
                                !.fib_ids = fib.list, !.fib_pos = 0],
              rng |-> fib.rng, rebuilt |-> FALSE]
    ELSE IF SetOf(ss.fib_ids) # SetOf(ids_desc)
         THEN LET fib == shuffle(ids_desc, e)
              IN  [ss |-> [ss EXCEPT !.fib_ids = fib.list],
                   rng |-> fib.rng, rebuilt |-> TRUE]
         ELSE [ss |-> ss, rng |-> e, rebuilt |-> FALSE]

\* lines 240-250; e is the generator's state, returned in rng
SyncFib(ss, ids_desc, e) ==
    IF "fib_ids" \notin ss.keys
    THEN LET fib == shuffle(ids_desc, e)
         IN  [ss |-> [ss EXCEPT !.keys = @ \cup {"fib_ids", "fib_pos"},
                                !.fib_ids = fib.list, !.fib_pos = 0],
              rng |-> fib.rng, rebuilt |-> FALSE]
    ELSE IF SetOf(ss.fib_ids) # SetOf(ids_desc)
         THEN LET fib == shuffle(ids_desc, e)
              IN  [ss |-> [ss EXCEPT !.fib_ids = fib.list, !.fib_pos = 0],
                   rng |-> fib.rng, rebuilt |-> TRUE]
         ELSE [ss |-> ss, rng |-> e, rebuilt |-> FALSE]

\* lines 214-215
InitEpoch(ss) ==
    IF "quiz_epoch" \notin ss.keys
    THEN [ss EXCEPT !.keys = @ \cup {"quiz_epoch"}, !.quiz_epoch = 0]
    ELSE ss

(***************************************************************************)
(* Fill in the blank, lines 292-338: pure parts                            *)
(***************************************************************************)
\* the thresholds of lines 294 and 296 taken as strict
num_blanks_Strict(n) == IF n < 15 THEN 3 ELSE IF n < 30 THEN 5 ELSE 7

\* lines 294-299
num_blanks(n) == IF n <= 15 THEN 3 ELSE IF n <= 30 THEN 5 ELSE 7

\* lines 305-306: a fresh blank selection for a verse of n tokens
NewBlanks(n, e) == sorted(sample(n, Min(num_blanks(n), n), e))

\* blanks_for without the test of line 304: a fresh selection in every run
blanks_for_Always(cache, cur_id, n, e) == Put(cache, cur_id, NewBlanks(n, e))

\* lines 304-306: the per-verse cache of blank selections
blanks_for(cache, cur_id, n, e) ==
    IF cur_id \notin DOMAIN cache THEN Put(cache, cur_id, NewBlanks(n, e)) ELSE cache

\* line 313: every words[idx] of the loop is a valid subscript
PromptOk(words, blank_indices) ==
    \A k \in DOMAIN blank_indices : blank_indices[k] + 1 \in DOMAIN words

\* lines 310-315, blank_map: dict tag -> clean, in insertion order
blank_map(words, blank_indices) ==
    [i \in DOMAIN blank_indices |->
        [tag |-> Tag(i), correct |-> re_sub_punct(words[blank_indices[i] + 1])]]

\* lines 311-315, prompt_words: a later assignment to the same index wins
prompt_words(words, blank_indices) ==
    [p \in DOMAIN words |->
        LET hits == {i \in DOMAIN blank_indices : blank_indices[i] + 1 = p}
        IN  IF hits = {} THEN words[p]
            ELSE Tag(CHOOSE i \in hits : \A j \in hits : j <= i)]

\* line 335 without .lower() on the expected token
IsCorrect_CaseSensitive(user_answer, correct) ==
    re_sub_punct(strip(lower(user_answer))) = correct

\* line 335
IsCorrect(user_answer, correct) == re_sub_punct(strip(lower(user_answer))) = lower(correct)

\* lines 331-336: answers is the dict of the text inputs, keyed 1..k
Score(bmap, answers) ==
    [r \in DOMAIN bmap |->
        LET i == TagNumber(bmap[r].tag)
            user_answer == Get(answers, i, <<>>)
        IN  [tag |-> bmap[r].tag, user_answer |-> user_answer,
             correct |-> bmap[r].correct,
             ok |-> IsCorrect(user_answer, bmap[r].correct)]]

(***************************************************************************)
(* One run of the script.  m is the machine while the run proceeds:        *)
(* storage (the cached get_storage() result), db, ss (st.session_state),   *)
(* page (what this run has rendered, and its locals), status, rng.         *)
(***************************************************************************)
\* fib_pos_found is the cursor a rebuild of fib_ids found, kept for the
\* properties, and edit_choice the position the user chose in the edit picker;
\* all other fields are what the script rendered or computed.
BlankPage ==
    [home |-> FALSE, quiz |-> "none", ids_desc |-> <<>>,
     rebuilt_mem |-> FALSE, current_id |-> None,
     rebuilt_fib |-> FALSE, fib_pos_found |-> 0,
     synced |-> [mem_ids |-> <<>>, mem_pos |-> 0, fib_ids |-> <<>>, fib_pos |-> 0],
     mem |-> FALSE, mem_cur_id |-> None, mem_next |-> FALSE,
     fill |-> "none", fib_cur_id |-> None, fib_next |-> FALSE,
     blank_indices |-> <<>>, fresh |-> FALSE,
     mem_submitted |-> FALSE, fib_submitted |-> FALSE,
     tail |-> FALSE, future |-> {}, edit_refs |-> <<>>, edit_ids |-> <<>>,
     edit_choice |-> 0, edit_id |-> None, did |-> "none"]

Event(name) == [name |-> name, text |-> <<>>, ref |-> <<>>, id |-> None, sel |-> 0]

\* lines 56-71: the secrets decide, and any exception falls back to SQLite
get_storage(secrets) ==
    IF secrets.url /\ secrets.key /\ secrets.client_ok THEN "supabase" ELSE "sqlite"

Secrets == [url : BOOLEAN, key : BOOLEAN, client_ok : BOOLEAN]

\* line 157 without the cache of line 56: get_storage() runs in every run
StorageStage_Uncached(m, secrets) == [m EXCEPT !.storage = get_storage(secrets)]

\* line 157: st.cache_resource returns the cached object when there is one
StorageStage(m, secrets) ==
    IF m.storage = "none" THEN [m EXCEPT !.storage = get_storage(secrets)] ELSE m

\* lines 160-176
SidebarStage(m, ev) ==
    IF ev.name = "reconnect"
    THEN [m EXCEPT !.storage = "none", !.status = "rerun", !.page.did = "reconnect"]
    ELSE m

\* lines 179-187
HomeStage(m, ev) ==
    IF m.status # "running" THEN m
    ELSE LET m1 == IF "entered" \notin m.ss.keys
                   THEN [m EXCEPT !.ss.keys = @ \cup {"entered"}, !.ss.entered = FALSE]
                   ELSE m
         IN  IF m1.ss.entered THEN m1
             ELSE IF ev.name = "enter"
                  THEN [m1 EXCEPT !.ss.entered = TRUE, !.status = "rerun",
                                  !.page.home = TRUE, !.page.did = "enter"]
                  ELSE [m1 EXCEPT !.status = "stop", !.page.home = TRUE]

\* advance without the modulo: the cursor runs past the last verse
advance_PastEnd(pos, len) == pos + 1

\* advance without the modulo: the cursor stops at the last verse
advance_NoWrap(pos, len) == Min(pos + 1, len - 1)

\* lines 280 and 348: the cursor after Next
advance(pos, len) == (pos + 1) % len

\* the emptiness test never succeeding
empty_Never(df) == FALSE

\* lines 196, 208, 391: DataFrame.empty
empty(df) == df = <<>>

\* mem_next moving the other mode's cursor as well
mem_next_BothCursors(ss, cur_id) ==
    [ss EXCEPT !.mem_pos = advance(ss.mem_pos, Len(ss.mem_ids)),
               !.fib_pos = advance(ss.fib_pos, Len(ss.fib_ids)),
               !.mem_show = @ \ {cur_id},
               !.mem_text = Pop(@, cur_id),
               !.quiz_epoch = @ + 1]

\* mem_next with line 282 left out: the results stay shown for the verse
mem_next_KeepFlag(ss, cur_id) ==
    [ss EXCEPT !.mem_pos = advance(ss.mem_pos, Len(ss.mem_ids)),
               !.mem_text = Pop(@, cur_id),
               !.quiz_epoch = @ + 1]

\* lines 280-284: the session after Next (Memorization) on cur_id
mem_next(ss, cur_id) ==
    [ss EXCEPT !.mem_pos = advance(ss.mem_pos, Len(ss.mem_ids)),
               !.mem_show = @ \ {cur_id},
               !.mem_text = Pop(@, cur_id),
               !.quiz_epoch = @ + 1]

\* fib_next with line 350 left out: the blank selection stays cached
fib_next_KeepBlanks(ss, cur_id) ==
    [ss EXCEPT !.fib_pos = advance(ss.fib_pos, Len(ss.fib_ids)),
               !.fib_results = Pop(@, cur_id),
               !.fib_show = @ \ {cur_id},
               !.quiz_epoch = @ + 1]

\* lines 348-353: the session after Next (Fill in the Blank) on cur_id
fib_next(ss, cur_id) ==
    [ss EXCEPT !.fib_pos = advance(ss.fib_pos, Len(ss.fib_ids)),
               !.fb_blanks_per_id = Pop(@, cur_id),
               !.fib_results = Pop(@, cur_id),
               !.fib_show = @ \ {cur_id},
               !.quiz_epoch = @ + 1]

\* lines 257-285; shown is the page the user clicked on
MemTab(m, ev, df_all, shown) ==
    LET ss == m.ss IN
    IF ss.mem_pos + 1 \notin DOMAIN ss.mem_ids
       \/ ss.mem_ids[ss.mem_pos + 1] \notin SetOf(IdList(df_all))
    THEN [m EXCEPT !.status = "error"]
    ELSE
    LET cur_id == ss.mem_ids[ss.mem_pos + 1]
        same == shown.mem /\ shown.mem_cur_id = cur_id
        mem_submitted == ev.name = "mem_submit" /\ same
        s1 == IF mem_submitted
              THEN [ss EXCEPT !.mem_show = @ \cup {cur_id},
                              !.mem_text = Put(@, cur_id, ev.text)]
              ELSE ss
        flag == cur_id \in s1.mem_show
        next == flag /\ ev.name = "mem_next" /\ same /\ shown.mem_next
        m1 == [m EXCEPT !.ss = s1, !.page.mem = TRUE, !.page.mem_cur_id = cur_id,
                        !.page.mem_next = flag, !.page.mem_submitted = mem_submitted]
    IN  IF next
        THEN [m1 EXCEPT !.ss = mem_next(s1, cur_id),
                        !.status = "rerun", !.page.did = "mem_next"]
        ELSE m1

\* lines 288-354
FillTab(m, ev, df_all, shown) ==
    LET ss == m.ss IN
    IF m.status # "running" THEN m
    ELSE IF ss.fib_pos + 1 \notin DOMAIN ss.fib_ids
            \/ ss.fib_ids[ss.fib_pos + 1] \notin SetOf(IdList(df_all))
    THEN [m EXCEPT !.status = "error"]
    ELSE
    LET cur_id == ss.fib_ids[ss.fib_pos + 1]
        cur == df_all[CHOOSE i \in DOMAIN df_all : df_all[i].id = cur_id]
        words == split(cur.text)
        n == Len(words)
        fresh == cur_id \notin DOMAIN ss.fb_blanks_per_id
        s1 == [ss EXCEPT !.keys = @ \cup {"fb_blanks_per_id"},
                         !.fb_blanks_per_id = blanks_for(@, cur_id, n, m.rng)]
        blank_indices == s1.fb_blanks_per_id[cur_id]
        m1 == [m EXCEPT !.ss = s1, !.page.fib_cur_id = cur_id,
                        !.page.blank_indices = blank_indices, !.page.fresh = fresh]
    IN  IF ~PromptOk(words, blank_indices)
        THEN [m1 EXCEPT !.status = "error", !.page.fill = "error"]
        ELSE
        LET bmap == blank_map(words, blank_indices)
            same == shown.fill = "form" /\ shown.fib_cur_id = cur_id
            fib_submitted == ev.name = "fib_submit" /\ same
            answers == [i \in 1..Len(blank_indices) |-> ev.text]
            s2 == IF fib_submitted
                  THEN [s1 EXCEPT !.fib_results = Put(@, cur_id, Score(bmap, answers)),
                                  !.fib_show = @ \cup {cur_id}]
                  ELSE s1
            flag == cur_id \in s2.fib_show
            next == flag /\ ev.name = "fib_next" /\ same /\ shown.fib_next
            m2 == [m1 EXCEPT !.ss = s2, !.page.fill = "form", !.page.fib_next = flag,
                             !.page.fib_submitted = fib_submitted]
        IN  IF next
            THEN [m2 EXCEPT !.ss = fib_next(s2, cur_id),
                            !.status = "rerun", !.page.did = "fib_next"]
            ELSE m2

\* lines 205-354
QuizStage(m, ev, shown) ==
    IF m.status # "running" THEN m
    ELSE LET df_all == list_verses(m.db[m.storage])
             ids_desc == IdList(df_all)
         IN  IF empty(df_all)
             THEN [m EXCEPT !.page.quiz = "info"]
             ELSE LET sm == SyncMem(InitEpoch(m.ss), ids_desc)
                      s == SyncFib(sm.ss, ids_desc, m.rng)
                      m1 == [m EXCEPT !.ss = s.ss, !.rng = s.rng,
                                      !.page.quiz = "tabs", !.page.ids_desc = ids_desc,
                                      !.page.rebuilt_mem = sm.rebuilt,
                                      !.page.current_id = sm.current_id,
                                      !.page.rebuilt_fib = s.rebuilt,
                                      !.page.fib_pos_found =
                                          IF s.rebuilt THEN m.ss.fib_pos ELSE 0,
                                      !.page.synced =
                                          [mem_ids |-> s.ss.mem_ids, mem_pos |-> s.ss.mem_pos,
                                           fib_ids |-> s.ss.fib_ids, fib_pos |-> s.ss.fib_pos]]
                  IN  FillTab(MemTab(m1, ev, df_all, shown), ev, df_all, shown)

\* lines 357-373
FutureStage(m, ev, now) ==
    IF m.status # "running" THEN m
    ELSE IF ev.name = "add_future" /\ strip(ev.ref) # <<>>
    THEN [m EXCEPT !.db[m.storage] = add_future(@, ev.ref, now),
                   !.status = "rerun", !.page.did = "add_future"]
    ELSE LET df2 == list_future(m.db[m.storage])
             ids == SetOf(IdList(df2))
         IN  IF ev.name = "remove" /\ ev.id \in ids
             THEN [m EXCEPT !.db[m.storage] = remove_future(@, ev.id),
                            !.status = "rerun", !.page.did = "remove_future"]
             ELSE [m EXCEPT !.page.future = ids]

\* lines 376-405
ManageStage(m, ev, now) ==
    IF m.status # "running" THEN m
    ELSE LET m1 == IF ev.name = "add_verse" /\ ev.ref # <<>> /\ ev.text # <<>>
                   THEN [m EXCEPT !.db[m.storage] = add_verse(@, ev.ref, ev.text, now)]
                   ELSE m
             df_edit == list_verses(m1.db[m1.storage])
             refs == [i \in DOMAIN df_edit |-> df_edit[i].ref]
         IN  IF empty(df_edit) THEN [m1 EXCEPT !.page.tail = TRUE]
             ELSE LET selected == IF ev.sel \in DOMAIN refs THEN refs[ev.sel] ELSE refs[1]
                      verse_row == df_edit[CHOOSE i \in DOMAIN df_edit :
                                        /\ df_edit[i].ref = selected
                                        /\ \A j \in DOMAIN df_edit :
                                              df_edit[j].ref = selected => i <= j]
                  IN  IF ev.name = "save_changes"
                      THEN [m1 EXCEPT !.db[m1.storage] =
                                          update_verse(@, verse_row.id, ev.ref, ev.text),
                                      !.status = "rerun", !.page.did = "update_verse",
                                      !.page.edit_choice =
                                          IF ev.sel \in DOMAIN refs THEN ev.sel ELSE 1,
                                      !.page.edit_id = verse_row.id]
                      ELSE [m1 EXCEPT !.page.tail = TRUE, !.page.edit_refs = refs,
                                      !.page.edit_ids = IdList(df_edit)]

\* the whole script
Script(m, ev, secrets, now, shown) ==
    LET a == SidebarStage(StorageStage(m, secrets), ev)
        b == HomeStage(a, ev)
        c == QuizStage(b, ev, shown)
        d == FutureStage(c, ev, now)
        f == ManageStage(d, ev, now)
    IN  IF f.status = "running" THEN [f EXCEPT !.status = "done"] ELSE f

(***************************************************************************)
(* State                                                                   *)
(***************************************************************************)
VARIABLES
    storage,        \* st.cache_resource: "none", or the backend get_storage() returned
    db,             \* the tables of each backend
    clock,          \* datetime('now')
    session_state,  \* st.session_state
    page,           \* what the last run rendered, with the locals it computed
    status,         \* how the last run ended: "done", "stop", "rerun", "error"
    hist,           \* history, read by the properties only: mem and fib, the cursor
                    \* positions Next was pressed at since that mode's sequence was
                    \* last built; used, the blank indices each verse was last
                    \* rendered with since Next was last pressed on it; fut, the
                    \* future-verses list before the last Add Future Verse
    fn              \* the input and result of the last call, in the specifications
                    \* that call the quiz's pure functions directly

vars == <<storage, db, clock, session_state, page, status, hist, fn>>

NoFut == [state |-> "none", prev |-> <<>>, new |-> None]
NoSub == [mem |-> {}, fib |-> {}]
NoHist == [mem |-> <<>>, fib |-> <<>>, used |-> EmptyDict, fut |-> NoFut, sub |-> NoSub]
NoCall == [op |-> "none"]

Init ==
    /\ storage = "none"
    /\ db = [b \in Backends |-> EmptyTables]
    /\ clock = 0
    /\ session_state = NewSession
    /\ page = BlankPage
    /\ status = "rerun"
    /\ hist = NoHist
    /\ fn = NoCall

\* The presses of one mode after a run: built says the run built the sequence
\* anew, pressed that the mode's Next button fired at cursor position pos of a
\* sequence of length len.  A press after a full cycle starts the next cycle.
Presses(h, built, pressed, pos, len) ==
    LET base == IF built THEN <<>> ELSE h
    IN  IF ~pressed THEN base
        ELSE IF Len(base) >= len THEN <<pos>> ELSE Append(base, pos)

\* the blank indices the fill tab read for its verse; a Next pressed on the
\* verse ends the visit
UsedAfter(u, r) ==
    IF r.page.fib_cur_id = None THEN u
    ELSE IF r.page.did = "fib_next" THEN Pop(u, r.page.fib_cur_id)
    ELSE Put(u, r.page.fib_cur_id, r.page.blank_indices)

FutAfter(f, t0, t1, did) ==
    IF did = "add_future"
    THEN [state |-> "added", prev |-> list_future(t0), new |-> t1.future_seq]
    ELSE IF did = "remove_future"
    THEN IF f.state = "added"
            /\ f.new \notin SetOf(IdList(t1.vv_future_verses))
         THEN [f EXCEPT !.state = "undone"]
         ELSE NoFut
    ELSE f

\* the verse ids submitted in a mode and not yet advanced past: the run's
\* submit adds the verse it was for, the run's Next removes the verse it left
SubAfter(s, cur_id, submitted, pressed) ==
    IF pressed THEN s \ {cur_id}
    ELSE IF submitted THEN s \cup {cur_id}
    ELSE s

HistAfter(h, before, t0, r) ==
    LET quiz == r.page.quiz = "tabs"
    IN  [mem |-> IF ~quiz THEN h.mem
                 ELSE Presses(h.mem,
                              r.page.rebuilt_mem \/ "mem_ids" \notin before.keys,
                              r.page.did = "mem_next",
                              r.page.synced.mem_pos, Len(r.page.synced.mem_ids)),
         fib |-> IF ~quiz THEN h.fib
                 ELSE Presses(h.fib,
                              r.page.rebuilt_fib \/ "fib_ids" \notin before.keys,
                              r.page.did = "fib_next",
                              r.page.synced.fib_pos, Len(r.page.synced.fib_ids)),
         used |-> UsedAfter(h.used, r),
         sub |-> [mem |-> SubAfter(h.sub.mem, r.page.mem_cur_id,
                                   r.page.mem_submitted, r.page.did = "mem_next"),
                  fib |-> SubAfter(h.sub.fib, r.page.fib_cur_id,
                                   r.page.fib_submitted, r.page.did = "fib_next")],
         fut |-> IF r.storage \in Backends
                 THEN FutAfter(h.fut, t0[r.storage], r.db[r.storage], r.page.did)
                 ELSE h.fut]

Machine(e) ==
    [storage |-> storage, db |-> db, ss |-> session_state,
     page |-> BlankPage, status |-> "running", rng |-> e]

RunScript(ev, secrets, e) ==
    \E r \in {Script(Machine(e), ev, secrets, clock, page)} :
        /\ storage' = r.storage
        /\ db' = r.db
        /\ session_state' = r.ss
        /\ page' = r.page
        /\ status' = r.status
        /\ hist' = HistAfter(hist, session_state, db, r)
        /\ UNCHANGED clock

Run(ev, secrets, e) == RunScript(ev, secrets, e) /\ UNCHANGED fn

Entropy == 0..MaxEntropy
NoSecrets == [url |-> FALSE, key |-> FALSE, client_ok |-> FALSE]
Idle == status # "rerun"

\* the first run of a session, and the run st.rerun() starts; Env is the set
\* of secrets files get_storage() may find
RerunIn(Env) ==
    /\ status = "rerun"
    /\ \E secrets \in Env, e \in Entropy : Run(Event("none"), secrets, e)

\* a run no button started (a text box changed, the page was refreshed)
Refresh ==
    /\ Idle
    /\ \E e \in Entropy : Run(Event("none"), NoSecrets, e)

Reconnect ==
    /\ Idle
    /\ \E e \in Entropy : Run(Event("reconnect"), NoSecrets, e)

EnterVault ==
    /\ Idle /\ page.home
    /\ \E e \in Entropy : Run(Event("enter"), NoSecrets, e)

MemSubmit ==
    /\ Idle /\ page.mem
    /\ \E text \in MemInputs, e \in Entropy :
          Run([Event("mem_submit") EXCEPT !.text = text], NoSecrets, e)

MemNext ==
    /\ Idle /\ page.mem_next
    /\ session_state.quiz_epoch < MaxEpoch
    /\ \E e \in Entropy : Run(Event("mem_next"), NoSecrets, e)

FibSubmit ==
    /\ Idle /\ page.fill = "form"
    /\ \E text \in AnswerInputs, e \in Entropy :
          Run([Event("fib_submit") EXCEPT !.text = text], NoSecrets, e)

FibNext ==
    /\ Idle /\ page.fib_next
    /\ session_state.quiz_epoch < MaxEpoch
    /\ \E e \in Entropy : Run(Event("fib_next"), NoSecrets, e)

AddFutureVerse ==
    /\ Idle /\ page.tail
    /\ InsertedFuture(db) < MaxFuture
    /\ \E new \in FutureInputs, e \in Entropy :
          Run([Event("add_future") EXCEPT !.ref = new], NoSecrets, e)

RemoveFuture ==
    /\ Idle /\ page.tail
    /\ \E id \in page.future, e \in Entropy :
          Run([Event("remove") EXCEPT !.id = id], NoSecrets, e)

AddVerseOf(Refs, Texts, cap) ==
    /\ Idle /\ page.tail
    /\ Inserted(db) < cap
    /\ \E ref \in Refs, text \in Texts, e \in Entropy :
          Run([Event("add_verse") EXCEPT !.ref = ref, !.text = text], NoSecrets, e)

SaveChangesOf(Refs, Texts) ==
    /\ Idle /\ page.tail
    /\ \E sel \in DOMAIN page.edit_refs, ref \in Refs, text \in Texts,
          e \in Entropy :
          Run([Event("save_changes") EXCEPT !.sel = sel, !.ref = ref, !.text = text],
              NoSecrets, e)

\* a second passes
Tick ==
    /\ clock < MaxClock
    /\ clock' = clock + 1
    /\ UNCHANGED <<storage, db, session_state, page, status, hist, fn>>

\* the quiz session: no remote credentials, one reference label, verses of
\* two lengths
Rerun == RerunIn({NoSecrets})
AddVerse == AddVerseOf({RefJohn}, VerseTexts, MaxVerses)
SaveChanges == SaveChangesOf({RefJohn}, VerseTexts)

Next ==
    \/ Rerun
    \/ Refresh
    \/ EnterVault
    \/ MemSubmit
    \/ MemNext
    \/ FibSubmit
    \/ FibNext
    \/ AddVerse
    \/ SaveChanges

Spec == Init /\ [][Next]_vars

(***************************************************************************)
(* The session in which the Reconnect button is used and the secrets file  *)
(* may or may not name a remote backend: both quiz modes over short verses.*)
(***************************************************************************)
RerunAnywhere == RerunIn(Secrets)
AddShortVerse == AddVerseOf({RefJohn}, {TextShort}, MaxVerses + 1)

NextSwitch ==
    \/ RerunAnywhere
    \/ Refresh
    \/ Reconnect
    \/ EnterVault
    \/ MemSubmit
    \/ MemNext
    \/ FibSubmit
    \/ FibNext
    \/ AddShortVerse

SpecSwitch == Init /\ [][NextSwitch]_vars

(***************************************************************************)
(* The future-verses list on the embedded backend: the Future Verses tab,  *)
(* the clock, and remove_future called on the storage object with any id   *)
(* (what a second session's Remove button does to this one's list).        *)
(***************************************************************************)
FutureIds == 1..(MaxFuture + 1)

CallRemoveFuture ==
    /\ storage \in Backends
    /\ \E id_ \in FutureIds :
          LET t0 == db[storage]
              t1 == remove_future(t0, id_)
              held == id_ \in SetOf(IdList(t0.vv_future_verses))
          IN  /\ db' = [db EXCEPT ![storage] = t1]
              /\ fn' = [op |-> "remove_future", id |-> id_, held |-> held,
                        before |-> list_future(t0), after |-> list_future(t1)]
              /\ hist' = [hist EXCEPT !.fut = IF held
                                              THEN FutAfter(@, t0, t1, "remove_future")
                                              ELSE @]
    /\ UNCHANGED <<storage, clock, session_state, page, status>>

NextFuture ==
    \/ Rerun
    \/ Refresh
    \/ EnterVault
    \/ AddFutureVerse
    \/ RemoveFuture
    \/ CallRemoveFuture
    \/ Tick

SpecFuture == Init /\ [][NextFuture]_vars

(***************************************************************************)
(* The storage handle: the session of SpecSwitch without the quiz buttons, *)
(* in which the first get_storage() call is kept as a call record.         *)
(***************************************************************************)
\* a run started by st.rerun() or a new session; the first of them calls
\* get_storage() (line 157 with an empty cache)
RerunSelecting ==
    /\ status = "rerun"
    /\ \E secrets \in Secrets, e \in Entropy :
          /\ RunScript(Event("none"), secrets, e)
          /\ fn' = IF fn = NoCall
                   THEN [op |-> "get_storage", backend |-> storage']
                   ELSE fn

NextBackend ==
    \/ RerunSelecting
    \/ Refresh
    \/ Reconnect
    \/ EnterVault
    \/ AddShortVerse

SpecBackend == Init /\ [][NextBackend]_vars

(***************************************************************************)
(* The Manage Vault section with two reference labels: verses are added    *)
(* under either label and edited to either label.                          *)
(***************************************************************************)
AddLabelled == AddVerseOf(VerseRefs, {TextShort}, MaxVerses)
EditLabelled == SaveChangesOf(VerseRefs, VerseTexts)

NextEdit ==
    \/ Rerun
    \/ Refresh
    \/ EnterVault
    \/ AddLabelled
    \/ EditLabelled

SpecEdit == Init /\ [][NextEdit]_vars

(***************************************************************************)
(* The verbatim traversal while the clock runs: verses are added in the    *)
(* same second and in different seconds, on either backend.                *)
(***************************************************************************)
NextOrder ==
    \/ RerunAnywhere
    \/ Refresh
    \/ Reconnect
    \/ EnterVault
    \/ MemSubmit
    \/ MemNext
    \/ AddShortVerse
    \/ Tick

SpecOrder == Init /\ [][NextOrder]_vars

(***************************************************************************)
(* The storage classes called on their own, on either backend: what any    *)
(* caller of the storage object can do with it.                            *)
(***************************************************************************)
StoreIds == 1..(MaxVerses + 1)

CallAddVerse ==
    /\ Inserted(db) < MaxVerses
    /\ \E b \in Backends, ref \in VerseRefs, text \in VerseTexts :
          /\ db' = [db EXCEPT ![b] = add_verse(@, ref, text, clock)]
          /\ fn' = [op |-> "add_verse", backend |-> b]
    /\ UNCHANGED <<storage, clock, session_state, page, status, hist>>

CallUpdateVerse ==
    /\ \E b \in Backends, id_ \in StoreIds, ref \in VerseRefs, text \in VerseTexts :
          LET t0 == db[b]
              t1 == update_verse(t0, id_, ref, text)
          IN  /\ db' = [db EXCEPT ![b] = t1]
              /\ fn' = [op |-> "update_verse", backend |-> b, id |-> id_,
                        held |-> id_ \in SetOf(IdList(t0.vv_verses)),
                        before |-> t0.vv_verses, after |-> t1.vv_verses,
                        outcome |-> update_verse_outcome(t0, id_)]
    /\ UNCHANGED <<storage, clock, session_state, page, status, hist>>

CallAddFuture ==
    /\ InsertedFuture(db) < MaxFuture
    /\ \E b \in Backends :
          /\ db' = [db EXCEPT ![b] = add_future(@, RefJohn, clock)]
          /\ fn' = [op |-> "add_future", backend |-> b]
    /\ UNCHANGED <<storage, clock, session_state, page, status, hist>>

\* lines 81-87 and 142-143
CallListVerses ==
    /\ \E b \in Backends :
          fn' = [op |-> "list_verses", backend |-> b,
                 rows |-> SetOf(db[b].vv_verses), out |-> list_verses(db[b])]
    /\ UNCHANGED <<storage, db, clock, session_state, page, status, hist>>

\* lines 96-98 and 149-150
CallListFuture ==
    /\ \E b \in Backends :
          \E out \in IF b = "supabase" THEN supabase_list_future(db[b])
                     ELSE {list_future(db[b])} :
              fn' = [op |-> "list_future", backend |-> b,
                     rows |-> SetOf(db[b].vv_future_verses), out |-> out]
    /\ UNCHANGED <<storage, db, clock, session_state, page, status, hist>>

NextStore ==
    \/ CallAddVerse
    \/ CallUpdateVerse
    \/ CallAddFuture
    \/ CallListVerses
    \/ CallListFuture
    \/ Tick

SpecStore == Init /\ [][NextStore]_vars

(***************************************************************************)
(* The quiz's pure computations called on their own: lines 292-306 on a    *)
(* verse text, lines 306-318 on a text and the indices a sample drew, and  *)
(* lines 310-336 on one token and one answer.                              *)
(***************************************************************************)
\* a verse text of n tokens
RECURSIVE Verse(_)
Verse(n) == IF n = 0 THEN <<" ">> ELSE Verse(n - 1) \o <<"a", "b", " ">>

FnEntropy == {s * 7919 : s \in 0..MaxPick}

TextGenesis == <<"I","n"," ","t","h","e"," ","b","e","g","i","n","n","i","n","g",","," ",
                 "G","o","d"," ","c","r","e","a","t","e","d">>
TextPraise == <<" ","L","o","r","d","."," "," ","i","s","!","\n">>
FnTexts == {TextGenesis, TextPraise}

\* the lists of at most three different indices below n, in every order
Draws(n) ==
    {d \in UNION {[1..k -> 0..(n - 1)] : k \in 0..3} :
        \A i, j \in DOMAIN d : i # j => d[i] # d[j]}

FnTokens == {<<"L","o","r","d">>, <<"L","o","r","d",".">>, <<"G","o","d",",">>}
FnAnswers == {<<" ","l","o","r","d","."," ">>, <<"l","o","r","d","s">>,
              <<"L","O","R","D">>, <<>>, <<"l","o","r","d">>,
              <<"."," ","l","o","r","d">>, <<"l",".","o",";","r",":","d","!">>,
              <<"\n","g","O","d","?"," ">>, <<"l","o"," ","r","d">>}

\* lines 292-306 for a verse that has no cached selection
CallBlanks ==
    /\ fn = NoCall
    /\ \E n \in 0..MaxTokens, e \in FnEntropy :
          LET text == Verse(n)
              words == split(text)
          IN  fn' = [op |-> "blanks", text |-> text, e |-> e,
                     out |-> NewBlanks(Len(words), e)]
    /\ UNCHANGED <<storage, db, clock, session_state, page, status, hist>>

\* lines 306-318 for the indices drawn
CallPrompt ==
    /\ fn = NoCall
    /\ \E text \in FnTexts :
          LET words == split(text) IN
          \E drawn \in Draws(Len(words)) :
              LET blank_indices == sorted(drawn)
              IN  fn' = [op |-> "prompt", text |-> text, drawn |-> drawn,
                         blank_map |-> blank_map(words, blank_indices),
                         prompt |-> join(prompt_words(words, blank_indices))]
    /\ UNCHANGED <<storage, db, clock, session_state, page, status, hist>>

\* lines 310-336 for a verse of one token, blanked, and the answer typed
CallScore ==
    /\ fn = NoCall
    /\ \E token \in FnTokens, answer \in FnAnswers :
          LET words == split(token)
              bmap == blank_map(words, <<0>>)
          IN  fn' = [op |-> "score", token |-> token, answer |-> answer,
                     results |-> Score(bmap, [i \in {1} |-> answer])]
    /\ UNCHANGED <<storage, db, clock, session_state, page, status, hist>>

NextFn ==
    \/ CallBlanks
    \/ CallPrompt
    \/ CallScore

SpecFn == Init /\ [][NextFn]_vars

(***************************************************************************)
(* Properties                                                              *)
(***************************************************************************)
VerseIds(t) == {t.vv_verses[i].id : i \in DOMAIN t.vv_verses}

\* every element of S occurs exactly once in seq, and nothing else occurs
ExactlyOnce(seq, S) ==
    /\ \A x \in S : Cardinality({i \in DOMAIN seq : seq[i] = x}) = 1
    /\ \A i \in DOMAIN seq : seq[i] \in S

\* the verse id a cursor points at, None when it points at nothing
At(ids, pos) == IF pos + 1 \in DOMAIN ids THEN ids[pos + 1] ELSE None

\* C1: in every run that renders the quiz tabs, the sync step leaves mem_ids and
\* fib_ids holding exactly the ids of the verses the store held when the run
\* listed them, each id once and no other id, and the session keeps those
\* sequences.
C1_SyncExact ==
    [][page'.quiz = "tabs" =>
          LET S == VerseIds(db[storage'])
          IN  /\ ExactlyOnce(page'.synced.mem_ids, S)
              /\ ExactlyOnce(page'.synced.fib_ids, S)
              /\ session_state'.mem_ids = page'.synced.mem_ids
              /\ session_state'.fib_ids = page'.synced.fib_ids]_vars

C1_Witness ==
    /\ status = "done" /\ page.quiz = "tabs"
    /\ page.rebuilt_mem /\ page.rebuilt_fib
    /\ Len(session_state.mem_ids) >= 2
    /\ session_state.fib_ids # session_state.mem_ids

\* C2: when a run's sync step finds mem_ids holding another id set than the
\* store, the cursor after the rebuild points at the verse id it pointed at
\* before the run if the store still holds that id, and is 0 if it does not.
C2_KeepCursor ==
    [][(/\ page'.quiz = "tabs"
        /\ "mem_ids" \in session_state.keys
        /\ SetOf(session_state.mem_ids) # VerseIds(db[storage'])) =>
          LET old == At(session_state.mem_ids, session_state.mem_pos)
              new == page'.synced
          IN  /\ old # None
              /\ IF old \in VerseIds(db[storage'])
                 THEN At(new.mem_ids, new.mem_pos) = old
                 ELSE new.mem_pos = 0]_vars

\* the cursor's verse is kept and its position moves
C2_Witness ==
    /\ page.rebuilt_mem
    /\ page.current_id \in SetOf(page.ids_desc)
    /\ page.synced.mem_pos > 0

\* the cursor's verse is gone from a store that holds other verses
C2_WitnessGone ==
    /\ page.rebuilt_mem
    /\ page.current_id # None
    /\ page.current_id \notin SetOf(page.ids_desc)
    /\ page.synced.mem_pos = 0
    /\ Len(page.ids_desc) >= 1

\* C3: when a run's sync step finds fib_ids holding another id set than the
\* store, fib_pos becomes 0 and fib_ids holds every id of the store exactly
\* once; when the sets are equal the sync leaves fib_ids and fib_pos as they were.
C3_FibRebuild ==
    [][(page'.quiz = "tabs" /\ "fib_ids" \in session_state.keys) =>
          LET S == VerseIds(db[storage'])
              new == page'.synced
          IN  IF SetOf(session_state.fib_ids) # S
              THEN new.fib_pos = 0 /\ ExactlyOnce(new.fib_ids, S)
              ELSE /\ new.fib_ids = session_state.fib_ids
                   /\ new.fib_pos = session_state.fib_pos]_vars

\* a rebuild that found the cursor away from 0, and did not come out newest
\* first
C3_Witness ==
    /\ page.rebuilt_fib
    /\ page.fib_pos_found > 0
    /\ page.synced.fib_pos = 0
    /\ page.synced.fib_ids # page.ids_desc

\* C4: Next moves the cursor of its mode from the position the sync step left
\* it at to (position + 1) mod length, to 0 from the last position; a run
\* without a rebuild starts from the cursor the session held.  Once Next has
\* been pressed length times since the sequence was built, the cursor is back
\* at the position of the first of those presses and the presses were at
\* pairwise different positions, one for each verse of the sequence.
C4_Step(did, rebuilt, old_ids, old_pos, synced_ids, synced_pos, new_ids, new_pos) ==
    did =>
        /\ new_ids = synced_ids
        /\ new_pos = (synced_pos + 1) % Len(synced_ids)
        /\ synced_pos = Len(synced_ids) - 1 => new_pos = 0
        /\ ~rebuilt => synced_ids = old_ids /\ synced_pos = old_pos

C4_Cycle(presses, ids, pos) ==
    (Len(presses) = Len(ids) /\ ids # <<>>) =>
        /\ pos = presses[1]
        /\ ExactlyOnce([i \in DOMAIN presses |-> At(ids, presses[i])], SetOf(ids))

C4_Cyclic ==
    /\ [][/\ C4_Step(page'.did = "mem_next", page'.rebuilt_mem,
                     session_state.mem_ids, session_state.mem_pos,
                     page'.synced.mem_ids, page'.synced.mem_pos,
                     session_state'.mem_ids, session_state'.mem_pos)
          /\ C4_Step(page'.did = "fib_next", page'.rebuilt_fib,
                     session_state.fib_ids, session_state.fib_pos,
                     page'.synced.fib_ids, page'.synced.fib_pos,
                     session_state'.fib_ids, session_state'.fib_pos)]_vars
    /\ [](/\ C4_Cycle(hist.mem, session_state.mem_ids, session_state.mem_pos)
          /\ C4_Cycle(hist.fib, session_state.fib_ids, session_state.fib_pos))

\* a full cycle of two verses in verbatim mode
C4_Witness ==
    /\ Len(session_state.mem_ids) >= 2
    /\ Len(hist.mem) = Len(session_state.mem_ids)
    /\ session_state.mem_pos = hist.mem[1]

\* a full cycle of two verses in fill-in-the-blank mode
C4_WitnessFib ==
    /\ Len(session_state.fib_ids) >= 2
    /\ Len(hist.fib) = Len(session_state.fib_ids)
    /\ session_state.fib_pos = hist.fib[1]

\* C5: a run that renders the fill-in-the-blank view for a verse that was
\* rendered before, with no fill-in-the-blank Next pressed on that verse since,
\* uses the blank indices of that earlier render, whatever happened in between.
C5_StableBlanks ==
    [][\A v \in DOMAIN hist.used :
          (page'.fill # "none" /\ page'.fib_cur_id = v) =>
              page'.blank_indices = hist.used[v]]_vars

\* the verse's blanks were read from the cache in a run that reshuffled the
\* sequence, for a verse with more tokens than blanks
C5_Witness ==
    /\ page.fill = "form" /\ ~page.fresh
    /\ page.rebuilt_fib
    /\ Len(page.blank_indices) = 3

\* C9: a run that reaches the quiz tab while the store lists no verse shows
\* the instruction, reads no current verse in either mode and leaves the
\* traversal state of the session as it was.
Traversal(ss) ==
    <<ss.keys \ {"entered"}, ss.mem_ids, ss.mem_pos, ss.fib_ids, ss.fib_pos,
      ss.quiz_epoch, ss.fb_blanks_per_id>>

C9_EmptyGuard ==
    [][(page'.quiz # "none" /\ VerseIds(db[storage']) = {}) =>
          /\ page'.quiz = "info"
          /\ ~page'.mem /\ page'.mem_cur_id = None
          /\ page'.fill = "none" /\ page'.fib_cur_id = None
          /\ Traversal(session_state') = Traversal(session_state)]_vars

\* the instruction is shown to a session that holds a traversal state
C9_Witness ==
    /\ page.quiz = "info" /\ status = "done"
    /\ session_state.mem_ids # <<>>

\* the claims' own reading of a text: its tokens, a token without the
\* punctuation characters, an answer folded to lower case and trimmed
TokenStarts(text) ==
    {i \in DOMAIN text : text[i] \notin {" ", "\n"}
                         /\ (i = 1 \/ text[i - 1] \in {" ", "\n"})}

TokenAt(text, i) ==
    LET stop == {j \in i..Len(text) : j = Len(text) \/ text[j + 1] \in {" ", "\n"}}
    IN  SubSeq(text, i, CHOOSE j \in stop : \A k \in stop : j <= k)

\* the k-th token of the text, k from 0
Token(text, k) ==
    TokenAt(text, CHOOSE i \in TokenStarts(text) :
                      Cardinality({j \in TokenStarts(text) : j < i}) = k)

RECURSIVE WithoutPunct(_)
WithoutPunct(tok) ==
    IF tok = <<>> THEN <<>>
    ELSE (IF Head(tok) \in {".", ",", ";", ":", "!", "?"} THEN <<>> ELSE <<Head(tok)>>)
         \o WithoutPunct(Tail(tok))

Folded(c) ==
    LET pairs == {<<"A","a">>, <<"B","b">>, <<"C","c">>, <<"D","d">>, <<"E","e">>,
                  <<"F","f">>, <<"G","g">>, <<"H","h">>, <<"I","i">>, <<"J","j">>,
                  <<"K","k">>, <<"L","l">>, <<"M","m">>, <<"N","n">>, <<"O","o">>,
                  <<"P","p">>, <<"Q","q">>, <<"R","r">>, <<"S","s">>, <<"T","t">>,
                  <<"U","u">>, <<"V","v">>, <<"W","w">>, <<"X","x">>, <<"Y","y">>,
                  <<"Z","z">>}
    IN  IF \E q \in pairs : q[1] = c THEN (CHOOSE q \in pairs : q[1] = c)[2] ELSE c

RECURSIVE Fold(_)
Fold(a) == IF a = <<>> THEN <<>> ELSE <<Folded(Head(a))>> \o Fold(Tail(a))

RECURSIVE Trimmed(_)
Trimmed(a) ==
    IF a = <<>> THEN a
    ELSE IF Head(a) \in {" ", "\n"} THEN Trimmed(Tail(a))
    ELSE IF a[Len(a)] \in {" ", "\n"} THEN Trimmed(SubSeq(a, 1, Len(a) - 1))
    ELSE a

\* C6: a fresh blank selection for a text of n tokens has min(target, n)
\* indices, target 3 up to 15 tokens, 5 from 16 to 30 and 7 above 30; the
\* indices are pairwise different and each is at least 0 and below n.
C6_BlankCount ==
    fn.op = "blanks" =>
        LET n == Cardinality(TokenStarts(fn.text))
            target == IF n <= 15 THEN 3 ELSE IF 16 <= n /\ n <= 30 THEN 5 ELSE 7
            count == Len(fn.out)
        IN  /\ count = (IF target <= n THEN target ELSE n)
            /\ \A i, j \in DOMAIN fn.out : i # j => fn.out[i] # fn.out[j]
            /\ \A i \in DOMAIN fn.out : 0 <= fn.out[i] /\ fn.out[i] < n
            /\ n = 10 => count = 3
            /\ n = 20 => count = 5
            /\ n = 40 => count = 7
            /\ n = 2 => count = 2
            /\ n = 0 => count = 0

\* seven blanks in a verse of forty tokens, not the first seven
C6_Witness ==
    /\ fn.op = "blanks"
    /\ Cardinality(TokenStarts(fn.text)) = 40
    /\ Len(fn.out) = 7
    /\ fn.out # <<0, 1, 2, 3, 4, 5, 6>>

\* C7: the token at the j-th smallest blank index is replaced by the tag [j],
\* whatever the order the indices were drawn in; every other token stays where
\* it is; the answer map sends [j] to that token without the characters
\* . , ; : ! ?
ClaimTag(j) == <<"[", <<"1", "2", "3", "4", "5", "6", "7", "8", "9">>[j], "]">>

RECURSIVE Spaced(_, _, _)
Spaced(text, B, k) ==
    IF k = Cardinality(TokenStarts(text)) THEN <<>>
    ELSE (IF k = 0 THEN <<>> ELSE <<" ">>)
         \o (IF k \in B THEN ClaimTag(1 + Cardinality({c \in B : c < k}))
             ELSE Token(text, k))
         \o Spaced(text, B, k + 1)

C7_Prompt ==
    fn.op = "prompt" =>
        LET B == SetOf(fn.drawn)
            rank(b) == 1 + Cardinality({c \in B : c < b})
        IN  /\ fn.prompt = Spaced(fn.text, B, 0)
            /\ DOMAIN fn.blank_map = 1..Cardinality(B)
            /\ \A b \in B :
                  /\ fn.blank_map[rank(b)].tag = ClaimTag(rank(b))
                  /\ fn.blank_map[rank(b)].correct = WithoutPunct(Token(fn.text, b))
            /\ (fn.text = TextGenesis /\ B = {0, 3}) =>
                  /\ fn.prompt = <<"[","1","]"," ","t","h","e"," ",
                                   "b","e","g","i","n","n","i","n","g",","," ",
                                   "[","2","]"," ","c","r","e","a","t","e","d">>
                  /\ fn.blank_map[1].correct = <<"I","n">>
                  /\ fn.blank_map[2].correct = <<"G","o","d">>

\* the example, with index 3 drawn before index 0
C7_Witness ==
    /\ fn.op = "prompt"
    /\ fn.text = TextGenesis
    /\ fn.drawn = <<3, 0>>
    /\ fn.blank_map[1].correct = <<"I","n">>

\* C8: a blank's result is correct exactly when the answer, folded to lower
\* case, trimmed of surrounding whitespace and stripped of . , ; : ! ?, equals
\* the expected token (the verse's token without those characters) folded to
\* lower case; the result carries the tag, the answer as typed and the
\* expected token.
C8_Scoring ==
    fn.op = "score" =>
        LET r == fn.results[1]
            expected == WithoutPunct(fn.token)
        IN  /\ DOMAIN fn.results = {1}
            /\ r.tag = ClaimTag(1)
            /\ r.user_answer = fn.answer
            /\ r.correct = expected
            /\ r.ok <=> (WithoutPunct(Trimmed(Fold(fn.answer))) = Fold(expected))
            /\ (expected = <<"L","o","r","d">>
                /\ fn.answer = <<" ","l","o","r","d","."," ">>) => r.ok
            /\ (expected = <<"L","o","r","d">>
                /\ fn.answer = <<"l","o","r","d","s">>) => ~r.ok

\* expected "Lord", answer " lord. "
C8_Witness ==
    /\ fn.op = "score"
    /\ fn.token = <<"L","o","r","d">>
    /\ fn.answer = <<" ","l","o","r","d","."," ">>
    /\ fn.results[1].ok

C10_WitnessEmpty ==
    /\ hist.fut.state = "undone"
    /\ hist.fut.prev = <<>>

\* remove_future called with an id the table does not hold, on a list that is
\* not empty
C10_WitnessAbsent ==
    /\ fn.op = "remove_future"
    /\ ~fn.held
    /\ fn.before # <<>>

\* C11: update_verse called with an id the verse table does not hold ends
\* with a NotFoundError, and the table's rows are as they were.
C11_NotFound ==
    (fn.op = "update_verse" /\ ~fn.held) =>
        /\ fn.outcome = "NotFoundError"
        /\ fn.after = fn.before

\* C12 as claimed: once the first get_storage() call has returned a backend,
\* the storage handle refers to that backend whenever it refers to one.
C12_SelectedOnce ==
    (fn.op = "get_storage" /\ storage \in Backends) => storage = fn.backend

\* C12, amended: a run that is not started by the Reconnect Supabase button
\* leaves the storage handle on the backend it referred to; the run the
\* button starts discards the handle, and the next run selects again.
C12_ReselectOnlyOnReconnect ==
    [][(storage \in Backends) =>
          (IF page'.did = "reconnect" THEN storage' = "none"
           ELSE storage' = storage)]_vars

\* after Reconnect Supabase, the handle refers to the other backend
C12_Witness ==
    /\ fn.op = "get_storage"
    /\ storage \in Backends
    /\ storage # fn.backend
    /\ status = "done"

\* C13: on either backend, list_verses and list_future return the stored rows
\* by creation time descending and, among rows of equal creation time, by id
\* descending.
C13_SameOrder ==
    fn.op \in {"list_verses", "list_future"} =>
        /\ SetOf(fn.out) = fn.rows
        /\ Len(fn.out) = Cardinality(fn.rows)
        /\ \A i, j \in DOMAIN fn.out :
              i < j => \/ fn.out[i].created_at > fn.out[j].created_at
                       \/ /\ fn.out[i].created_at = fn.out[j].created_at
                          /\ fn.out[i].id > fn.out[j].id

\* a dictionary of the session without the entry of verse v
Without(d, v) == [x \in (DOMAIN d) \ {v} |-> d[x]]

\* C14: a run in which Next (Fill in the Blank) fires on verse v leaves v
\* without cached blank selection, without cached results and with its
\* results flag off, and the epoch one higher; the blank selections, results
\* and flags of all other verses are as before the run.  The first render of
\* the fill view for v after that draws a fresh selection and shows no results.
C14_FibNextDiscards ==
    /\ [][page'.did = "fib_next" =>
             LET v == page'.fib_cur_id
             IN  /\ v \notin DOMAIN session_state'.fb_blanks_per_id
                 /\ v \notin DOMAIN session_state'.fib_results
                 /\ v \notin session_state'.fib_show
                 /\ session_state'.quiz_epoch = session_state.quiz_epoch + 1
                 /\ session_state'.fb_blanks_per_id = Without(session_state.fb_blanks_per_id, v)
                 /\ session_state'.fib_results = Without(session_state.fib_results, v)
                 /\ session_state'.fib_show = session_state.fib_show \ {v}]_vars
    /\ [][(page'.fill # "none" /\ page'.fib_cur_id \notin DOMAIN hist.used) =>
             /\ page'.fresh
             /\ ~page'.fib_next]_vars

\* Next fired on a verse while another verse has a cached selection and
\* results shown
C14_Witness ==
    /\ page.did = "fib_next"
    /\ \E u \in DOMAIN session_state.fb_blanks_per_id :
          /\ u # page.fib_cur_id
          /\ u \in session_state.fib_show
          /\ u \in DOMAIN session_state.fib_results

\* the verse Next was pressed on is current again, with a fresh selection
C14_WitnessAgain ==
    /\ page.fill = "form" /\ page.fresh /\ ~page.fib_next
    /\ session_state.quiz_epoch > 0
    /\ hist.fib # <<>>
    /\ At(session_state.fib_ids, hist.fib[1]) = page.fib_cur_id

\* C15: a run in which the verbatim Submit or Next fires ends with fib_ids and
\* fib_pos as the run's sync step left them and with the fill-in-the-blank
\* results and flags as before the run, and the blank selections cached
\* before the run are unchanged (the fill view rendered in the same run caches
\* a selection only for its own verse when that verse had none); a run in
\* which the fill-in-the-blank Submit or Next fires ends with mem_ids and
\* mem_pos as the sync step left them and with the verbatim answers and flags
\* as before the run.  Each Next adds 1 to quiz_epoch and a Submit leaves it.
C15_MemFires == page'.mem_submitted \/ page'.did = "mem_next"
C15_FibFires == page'.fib_submitted \/ page'.did = "fib_next"

C15_Independent ==
    [][/\ C15_MemFires =>
             /\ session_state'.fib_ids = page'.synced.fib_ids
             /\ session_state'.fib_pos = page'.synced.fib_pos
             /\ session_state'.fib_results = session_state.fib_results
             /\ session_state'.fib_show = session_state.fib_show
             /\ \A u \in DOMAIN session_state.fb_blanks_per_id :
                   /\ u \in DOMAIN session_state'.fb_blanks_per_id
                   /\ session_state'.fb_blanks_per_id[u] = session_state.fb_blanks_per_id[u]
             /\ \A u \in DOMAIN session_state'.fb_blanks_per_id :
                   u \in DOMAIN session_state.fb_blanks_per_id
                   \/ (u = page'.fib_cur_id /\ page'.fresh)
       /\ C15_FibFires =>
             /\ session_state'.mem_ids = page'.synced.mem_ids
             /\ session_state'.mem_pos = page'.synced.mem_pos
             /\ session_state'.mem_show = session_state.mem_show
             /\ session_state'.mem_text = session_state.mem_text
       /\ (C15_MemFires \/ C15_FibFires) =>
             session_state'.quiz_epoch =
                 session_state.quiz_epoch
                 + (IF page'.did \in {"mem_next", "fib_next"} THEN 1 ELSE 0)]_vars

\* the verbatim Next has fired while the fill-in-the-blank cursor is away from
\* 0 and its verse has results shown
C15_Witness ==
    /\ page.did = "mem_next"
    /\ session_state.fib_pos > 0
    /\ session_state.fib_show # {}
    /\ session_state.fib_results # EmptyDict

\* the fill-in-the-blank Next has fired while the verbatim cursor is away
\* from 0 and an answer is kept
C15_WitnessFib ==
    /\ page.did = "fib_next"
    /\ session_state.mem_pos > 0
    /\ session_state.mem_show # {}

\* C16: in every run that reaches the fill-in-the-blank view, each blank index
\* used for the current verse is at least 0 and below the number of tokens of
\* the verse's text as the store holds it in that run.
C16_ValidBlanks ==
    [][page'.fill # "none" =>
          LET rows == db[storage'].vv_verses
              cur == rows[CHOOSE i \in DOMAIN rows : rows[i].id = page'.fib_cur_id]
              n == Cardinality(TokenStarts(cur.text))
          IN  \A k \in DOMAIN page'.blank_indices :
                  0 <= page'.blank_indices[k] /\ page'.blank_indices[k] < n]_vars

\* C17: in every run that lists at least one verse, after the sync step both
\* cursors are at least 0 and below the length of their sequence, the id at
\* each cursor is the id of a verse the store lists in that run, and the
\* current-verse lookups of the views the run reaches succeed.
C17_CursorsInRange ==
    [][(page'.quiz # "none" /\ VerseIds(db[storage']) # {}) =>
          LET y == page'.synced
              S == VerseIds(db[storage'])
          IN  /\ page'.quiz = "tabs"
              /\ 0 <= y.mem_pos /\ y.mem_pos < Len(y.mem_ids)
              /\ 0 <= y.fib_pos /\ y.fib_pos < Len(y.fib_ids)
              /\ At(y.mem_ids, y.mem_pos) \in S
              /\ At(y.fib_ids, y.fib_pos) \in S
              /\ page'.mem /\ page'.mem_cur_id = At(y.mem_ids, y.mem_pos)
              /\ page'.did # "mem_next" => page'.fib_cur_id = At(y.fib_ids, y.fib_pos)]_vars

\* the verse set grew since the sequences were built, and both cursors were
\* carried over or reset to a verse of the new listing
C17_Witness ==
    /\ page.quiz = "tabs"
    /\ page.rebuilt_mem /\ page.rebuilt_fib
    /\ Len(page.ids_desc) >= 2
    /\ page.synced.mem_pos > 0
    /\ page.mem /\ page.fib_cur_id # None

\* C18: in every run that renders the quiz tabs, mem_ids after the sync step
\* is the sequence of verse ids in the order the store lists them, newest
\* first: by creation time descending, then by id descending.  The listing is
\* the one the run reads at line 217, before anything the run itself adds, and
\* a step of the clock alone is not a run.
C18_NewestFirst ==
    [][(clock' = clock /\ page'.quiz = "tabs") =>
          LET rows == SetOf(db[storage'].vv_verses)
              y == page'.synced.mem_ids
              row(v) == CHOOSE r \in rows : r.id = v
          IN  /\ SetOf(y) = {r.id : r \in rows}
              /\ Len(y) = Cardinality(rows)
              /\ \A i, j \in DOMAIN y :
                    i < j => \/ row(y[i]).created_at > row(y[j]).created_at
                             \/ /\ row(y[i]).created_at = row(y[j]).created_at
                                /\ y[i] > y[j]
              /\ session_state'.mem_ids = y]_vars

\* a verse was added a second after the others, the sequence was rebuilt and
\* the cursor is no longer on the first element
C18_Witness ==
    /\ page.quiz = "tabs" /\ page.rebuilt_mem
    /\ Len(page.ids_desc) >= 2
    /\ page.synced.mem_pos > 0
    /\ \E r, q \in SetOf(db[storage].vv_verses) : r.created_at < q.created_at

\* C19: in either mode the Next button fires on a verse only if that verse id
\* was submitted in that mode since the last Next on it; the results-shown
\* flag of a verse is set only by a submit for it and cleared only by a Next
\* on it.
C19_NextAfterSubmit ==
    [][/\ page'.did = "mem_next" => page'.mem_cur_id \in hist.sub.mem
       /\ page'.did = "fib_next" => page'.fib_cur_id \in hist.sub.fib
       /\ \A v \in session_state'.mem_show \ session_state.mem_show :
             page'.mem_submitted /\ v = page'.mem_cur_id
       /\ \A v \in session_state.mem_show \ session_state'.mem_show :
             page'.did = "mem_next" /\ v = page'.mem_cur_id
       /\ \A v \in session_state'.fib_show \ session_state.fib_show :
             page'.fib_submitted /\ v = page'.fib_cur_id
       /\ \A v \in session_state.fib_show \ session_state'.fib_show :
             page'.did = "fib_next" /\ v = page'.fib_cur_id
       /\ page'.mem_next => page'.mem_cur_id \in hist'.sub.mem \cup hist.sub.mem
       /\ page'.fib_next => page'.fib_cur_id \in hist'.sub.fib \cup hist.sub.fib]_vars

\* Next (Memorization) has fired for the second time, on a verse that had
\* been submitted again
C19_Witness ==
    /\ page.did = "mem_next"
    /\ session_state.quiz_epoch >= 2
    /\ page.mem_cur_id \notin hist.sub.mem
    /\ page.mem_cur_id \notin session_state.mem_show

C19_WitnessFib ==
    /\ page.did = "fib_next"
    /\ page.fib_cur_id \notin hist.sub.fib
    /\ hist.sub.mem # {}

\* C20: pressing Save Changes with the picker on the entry of verse v updates
\* the record with v's id and leaves every other verse record as it was,
\* whether or not another verse carries the same reference label.
C20_EditTargetsChosen ==
    [][page'.did = "update_verse" =>
          LET v == page.edit_ids[page'.edit_choice]
              before == SetOf(db[storage].vv_verses)
              after == SetOf(db'[storage'].vv_verses)
          IN  /\ page'.edit_id = v
              /\ \A r \in before : r.id # v => r \in after
              /\ \A r \in after : r.id # v => r \in before]_vars

\* the same, for a picker entry whose label no other verse carries
C20_UniqueLabel ==
    [][(/\ page'.did = "update_verse"
        /\ \A i \in DOMAIN page.edit_refs :
              page.edit_refs[i] = page.edit_refs[page'.edit_choice]
                 => i = page'.edit_choice) =>
          LET v == page.edit_ids[page'.edit_choice]
              before == SetOf(db[storage].vv_verses)
              after == SetOf(db'[storage'].vv_verses)
          IN  /\ page'.edit_id = v
              /\ \A r \in before : r.id # v => r \in after
              /\ \A r \in after : r.id # v => r \in before]_vars

====
